---- MODULE Spec2Model ----
(***************************************************************************)
(* The catalogue crawlers of the repository, as one state machine:         *)
(*   scraper/scraper.py       BookScraper.__books_list and its __main__    *)
(*   scripts/scrape_books.py  scrape_all_books, get_book_details,          *)
(*                            save_to_csv and its __main__                 *)
(*   api/app.py               load_books_data (reader of the CSV file)     *)
(* The site is a set of listing pages 1..NPages; page p carries a "next"   *)
(* link to page nextLink[p] (0: no link).  The outcome of a fetch, the     *)
(* number of item cards a listing page shows and the shape of a detail     *)
(* page are chosen when the page is fetched.                               *)
(***************************************************************************)
EXTENDS Integers, Sequences, FiniteSets, TLC

\* ------------------------------------------------------------------ bounds
NPages == 2
MaxItems == 2
MaxListingFetches == 2
MaxCrumbs == 4

\* --------------------------------------------------------------- constants
Progs == {"scraper", "scrape_books"}
Pages == 1..NPages
NoUrl == 0
NoDoc == [fetch |-> "none"]
None == <<"None">>
Raised == <<"Raised">>
\* the destination file: missing, or its lines
Absent == [exists |-> FALSE, lines |-> <<>>]
FileOf(lines) == [exists |-> TRUE, lines |-> lines]
\* the empty string ''
EmptyStr == <<>>
FetchOutcomes == {"ok", "status", "transport"}

\* class tokens that may follow "star-rating" on the rating element
Tokens == {"One", "Two", "Three", "Four", "Five", "Zero"}
NoElem == <<"no element">>
RatingShapes == {NoElem, <<"star-rating">>} \cup {<<"star-rating", t>> : t \in Tokens}
\* number of anchors of ul.breadcrumb; -1: the page has no breadcrumb list
CrumbShapes == (-1)..MaxCrumbs

\* ---------------------------------------------------------- detail pages
\* A detail page as the selectors of the two extractors see it.
BaseDoc ==
  [fetch |-> "ok", title |-> TRUE, price |-> TRUE, stock |-> TRUE,
   desc |-> TRUE, rating |-> <<"star-rating", "Three">>, img |-> TRUE,
   crumbs |-> 3]

\* the body of an error response: none of the selectors matches
ErrorPage ==
  [fetch |-> "ok", title |-> FALSE, price |-> FALSE, stock |-> FALSE,
   desc |-> FALSE, rating |-> NoElem, img |-> FALSE, crumbs |-> -1]

\* what the fetch of any detail page may return
CommonShapes ==
  { BaseDoc,
    [BaseDoc EXCEPT !.fetch = "status"],
    [BaseDoc EXCEPT !.fetch = "transport"],
    [BaseDoc EXCEPT !.title = FALSE] }

\* what the fetch of the first detail page of a run may return
AllShapes ==
  CommonShapes
  \cup { [BaseDoc EXCEPT !.rating = r] : r \in RatingShapes }
  \cup { [BaseDoc EXCEPT !.crumbs = n] : n \in CrumbShapes }
  \cup { [BaseDoc EXCEPT !.price = FALSE],
         [BaseDoc EXCEPT !.stock = FALSE],
         [BaseDoc EXCEPT !.desc = FALSE],
         [BaseDoc EXCEPT !.img = FALSE] }

DocsAt(first) == IF first THEN AllShapes ELSE CommonShapes

\* texts and URLs of item i of page p
TitleText(p, i) == <<"title", p, i>>
PriceText(p, i) == <<"GBP", 10 * p + i>>
StockText == <<"In stock">>
DescText(p, i) == <<"description", p, i>>
BookUrl(p, i) == <<"book_url", p, i>>
ImgUrl(p, i) == <<"img", p, i>>
\* the anchors of ul.breadcrumb, by their texts
Breadcrumb(doc) ==
  IF doc.crumbs < 0 THEN <<>> ELSE [k \in 1..doc.crumbs |-> <<"crumb", k>>]

\* requests.get + BeautifulSoup in scraper.py: no status check, the body of
\* an error response is parsed like any other
Scrape(doc) == IF doc.fetch = "status" THEN ErrorPage ELSE doc

\* ------------------------------------------------- scraper.py extraction
ScraperCategory(breadcrumb) ==
  IF Len(breadcrumb) > 2 THEN breadcrumb[Len(breadcrumb)] ELSE EmptyStr

\* variant: a field that was not found is left out of the record
ScraperRecordOmitEmpty(p, i, book_soup) ==
  << <<"title", TitleText(p, i)>>,
     <<"price", PriceText(p, i)>>,
     <<"stock", StockText>>,
     <<"description", IF book_soup.desc THEN DescText(p, i) ELSE EmptyStr>>,
     <<"stars", book_soup.rating[2]>> >>
  \o (IF book_soup.img THEN << <<"img_url", ImgUrl(p, i)>> >> ELSE <<>>)
  \o << <<"category", ScraperCategory(Breadcrumb(book_soup))>> >>

ScraperRecord(p, i, book_soup) ==
  << <<"title", TitleText(p, i)>>,
     <<"price", PriceText(p, i)>>,
     <<"stock", StockText>>,
     <<"description", IF book_soup.desc THEN DescText(p, i) ELSE EmptyStr>>,
     <<"stars", book_soup.rating[2]>>,
     <<"img_url", IF book_soup.img THEN ImgUrl(p, i) ELSE EmptyStr>>,
     <<"category", ScraperCategory(Breadcrumb(book_soup))>> >>

\* the body of the for loop of __books_list: a record, or Raised when a
\* statement of the body raises
ScraperExtract(p, i, doc) ==
  IF doc.fetch = "transport" THEN Raised
  ELSE LET book_soup == Scrape(doc) IN
    IF ~book_soup.title THEN Raised
    ELSE IF ~book_soup.price THEN Raised
    ELSE IF ~book_soup.stock THEN Raised
    ELSE IF book_soup.rating = NoElem THEN Raised
    ELSE IF Len(book_soup.rating) < 2 THEN Raised
    ELSE ScraperRecord(p, i, book_soup)

\* -------------------------------------------- scrape_books.py extraction
FormatRating(token) == <<token, "de", "5", "estrelas">>

BooksRecord(p, i, soup) ==
  << <<"title", TitleText(p, i)>>,
     <<"price", PriceText(p, i)>>,
     <<"rating", FormatRating(soup.rating[2])>>,
     <<"availability", StockText>>,
     <<"category", Breadcrumb(soup)[3]>>,
     <<"image_url", ImgUrl(p, i)>>,
     <<"book_url", BookUrl(p, i)>> >>

get_book_details(p, i, doc) ==
  IF doc.fetch # "ok" THEN None
  ELSE IF ~doc.title THEN None
  ELSE IF ~doc.price THEN None
  ELSE IF doc.rating = NoElem THEN None
  ELSE IF Len(doc.rating) < 2 THEN None
  ELSE IF ~doc.stock THEN None
  ELSE IF doc.crumbs < 0 THEN None
  ELSE IF Len(Breadcrumb(doc)) < 3 THEN None
  ELSE IF ~doc.img THEN None
  ELSE BooksRecord(p, i, doc)

\* ------------------------------------------------------------- CSV file
Keys(rec) == [k \in 1..Len(rec) |-> rec[k][1]]

\* csv.DictWriter(csvfile, fieldnames=results[0].keys())
Fieldnames(results) == Keys(results[1])

RECURSIVE AppendNew(_, _)
AppendNew(cols, ks) ==
  IF ks = <<>> THEN cols
  ELSE AppendNew(IF \E j \in 1..Len(cols) : cols[j] = Head(ks)
                 THEN cols ELSE Append(cols, Head(ks)), Tail(ks))

\* pd.DataFrame(data).columns: the keys in order of first appearance
RECURSIVE DataFrameColumns(_)
DataFrameColumns(data) ==
  IF data = <<>> THEN <<>>
  ELSE AppendNew(DataFrameColumns(SubSeq(data, 1, Len(data) - 1)),
                 Keys(data[Len(data)]))

Cell(rec, col) ==
  IF \E k \in 1..Len(rec) : rec[k][1] = col
  THEN rec[CHOOSE k \in 1..Len(rec) : rec[k][1] = col][2]
  ELSE EmptyStr

Row(rec, cols) == [k \in 1..Len(cols) |-> Cell(rec, cols[k])]

PlaceholderLine == <<"No data found">>

OldFile == FileOf(<< <<"old header">>, <<"old row">> >>)
\* ------------------------------------------------------ load_books_data
NaN == -1
rating_map == [One |-> 1, Two |-> 2, Three |-> 3, Four |-> 4, Five |-> 5]

\* df['rating'].str.split(' ').str[0].map(rating_map)
RatingNumeric(rating) ==
  IF rating = <<>> THEN NaN
  ELSE IF rating[1] \in DOMAIN rating_map THEN rating_map[rating[1]] ELSE NaN

\* df['price'].replace({r'[£]': ''}, regex=True).astype(float)
PriceNumeric(price) == IF price[1] = "GBP" THEN price[2] ELSE price[1]

ColumnOf(line, cols, col) == line[CHOOSE k \in 1..Len(cols) : cols[k] = col]
HasColumn(cols, col) == \E k \in 1..Len(cols) : cols[k] = col

load_books_data(csv) ==
  IF ~csv.exists THEN None
  ELSE LET cols == csv.lines[1] IN
    [r \in 1..(Len(csv.lines) - 1) |->
       [id |-> r - 1,
        line |-> csv.lines[r + 1],
        price_numeric |->
          IF HasColumn(cols, "price")
          THEN PriceNumeric(ColumnOf(csv.lines[r + 1], cols, "price")) ELSE NaN,
        rating_numeric |->
          IF HasColumn(cols, "rating")
          THEN RatingNumeric(ColumnOf(csv.lines[r + 1], cols, "rating")) ELSE NaN]]

\* ================================================================ state
VARIABLES
  prog,            \* which crawler runs
  nextLink,        \* the site: target of the "next" link of each page
  prevFile,        \* the destination file as it was before the run
  pc,              \* position of the run
  next_page_url,   \* next_page_url / current_page_url
  soup,            \* the listing page being processed
  idx,             \* position of the for loop over the item cards
  book_soup,       \* the detail page fetched last
  books,           \* books / all_books_data
  listingLog,      \* the listing fetches so far, with their outcome
  anyFetchFailed,  \* some fetch of the run did not succeed
  file,            \* the destination file: Absent or its lines
  exitCode,        \* exit status of the process, -1 while it runs
  table            \* the data frame load_books_data returns

vars == <<prog, nextLink, prevFile, pc, next_page_url, soup, idx,
          book_soup, books, listingLog, anyFetchFailed, file, exitCode, table>>

site == <<prog, nextLink, prevFile>>

\* the pages reached from the pages of S by the links nl
RECURSIVE Reachable(_, _)
Reachable(nl, S) ==
  LET T == S \cup ({nl[p] : p \in S} \ {NoUrl})
  IN IF T = S THEN S ELSE Reachable(nl, T)

NoSoup == [items |-> 0, next |-> NoUrl]
Running == -1
NotLoaded == <<"not loaded">>

Init ==
  /\ prog \in Progs
  \* the pages the walk cannot reach are left without a link
  /\ nextLink \in [Pages -> {NoUrl} \cup Pages]
  /\ \A p \in Pages : p \notin Reachable(nextLink, {1}) => nextLink[p] = NoUrl
  /\ prevFile \in {Absent, OldFile}
  /\ file = prevFile
  /\ pc = "loop"
  \* scraper.py: os.environ.get("SCRAPE_URL"), None when unset;
  \* scrape_books.py: base_url + 'page-1.html'
  /\ next_page_url \in (IF prog = "scraper" THEN {NoUrl, 1} ELSE {1})
  /\ soup = NoSoup
  /\ idx = 1
  /\ book_soup = NoDoc
  /\ books = <<>>
  /\ listingLog = <<>>
  /\ anyFetchFailed = FALSE
  /\ exitCode = Running
  /\ table = NotLoaded

\* ------------------------------------------------------- pagination walk
\* the parsed listing page p when it shows n item cards
Listing(p, n) == [items |-> n, next |-> nextLink[p]]

\* scraper.py 79-81: fetch and parse the listing page; a transport error
\* propagates, an error status yields a page without cards and next link
ScraperFetchListing ==
  /\ prog = "scraper" /\ pc = "loop" /\ next_page_url # NoUrl
  /\ Len(listingLog) < MaxListingFetches
  /\ \E o \in FetchOutcomes, n \in 0..MaxItems :
       /\ listingLog' = Append(listingLog, [url |-> next_page_url, outcome |-> o])
       /\ anyFetchFailed' = (anyFetchFailed \/ o # "ok")
       /\ IF o = "transport"
          THEN /\ pc' = "crashed" /\ exitCode' = 1
               /\ UNCHANGED <<soup, idx>>
          ELSE /\ pc' = "items" /\ idx' = 1
               /\ soup' = (IF o = "ok" THEN Listing(next_page_url, n) ELSE NoSoup)
               /\ UNCHANGED exitCode
  /\ UNCHANGED <<site, next_page_url, book_soup, books, file, table>>

\* scrape_books.py 59-65, 83-85: any RequestException breaks the loop
BooksFetchListing ==
  /\ prog = "scrape_books" /\ pc = "loop" /\ next_page_url # NoUrl
  /\ Len(listingLog) < MaxListingFetches
  /\ \E o \in FetchOutcomes, n \in 0..MaxItems :
       /\ listingLog' = Append(listingLog, [url |-> next_page_url, outcome |-> o])
       /\ anyFetchFailed' = (anyFetchFailed \/ o # "ok")
       /\ IF o = "ok"
          THEN /\ pc' = "items" /\ idx' = 1
               /\ soup' = Listing(next_page_url, n)
               /\ UNCHANGED book_soup
          ELSE /\ pc' = "save"
               /\ soup' = NoSoup /\ idx' = 1 /\ book_soup' = NoDoc
  /\ UNCHANGED <<site, next_page_url, books, file, exitCode, table>>

\* scraper.py 82-105: one iteration of the loop over the item cards
ScraperItem ==
  /\ prog = "scraper" /\ pc = "items" /\ idx <= soup.items
  /\ \E doc \in DocsAt(Len(listingLog) = 1 /\ idx = 1) :
       LET res == ScraperExtract(next_page_url, idx, doc) IN
       /\ book_soup' = doc
       /\ anyFetchFailed' = (anyFetchFailed \/ doc.fetch # "ok")
       /\ IF res = Raised
          THEN /\ pc' = "crashed" /\ exitCode' = 1
               /\ UNCHANGED <<books, idx>>
          ELSE /\ books' = Append(books, res)
               /\ idx' = idx + 1
               /\ UNCHANGED <<pc, exitCode>>
  /\ UNCHANGED <<site, next_page_url, soup, listingLog, file, table>>

\* variant: the record is put in front of the list
BooksItemPrepend ==
  /\ prog = "scrape_books" /\ pc = "items" /\ idx <= soup.items
  /\ \E doc \in DocsAt(Len(listingLog) = 1 /\ idx = 1) :
       LET book_data == get_book_details(next_page_url, idx, doc) IN
       /\ book_soup' = doc
       /\ anyFetchFailed' = (anyFetchFailed \/ doc.fetch # "ok")
       /\ books' = (IF book_data # None THEN <<book_data>> \o books ELSE books)
       /\ idx' = idx + 1
  /\ UNCHANGED <<site, pc, next_page_url, soup, listingLog, file, exitCode, table>>

\* scrape_books.py 70-73: one iteration of the loop over book_links
BooksItem ==
  /\ prog = "scrape_books" /\ pc = "items" /\ idx <= soup.items
  /\ \E doc \in DocsAt(Len(listingLog) = 1 /\ idx = 1) :
       LET book_data == get_book_details(next_page_url, idx, doc) IN
       /\ book_soup' = doc
       /\ anyFetchFailed' = (anyFetchFailed \/ doc.fetch # "ok")
       /\ books' = (IF book_data # None THEN Append(books, book_data) ELSE books)
       /\ idx' = idx + 1
  /\ UNCHANGED <<site, pc, next_page_url, soup, listingLog, file, exitCode, table>>

\* scraper.py 106-112, scrape_books.py 76-81: follow the next link, or end
NextPage ==
  /\ pc = "items" /\ idx > soup.items
  /\ next_page_url' = soup.next
  /\ pc' = "loop"
  /\ UNCHANGED <<site, soup, idx, book_soup, books, listingLog,
                 anyFetchFailed, file, exitCode, table>>

\* the while condition is false: the walk returns the records and its
\* local variables are gone
WalkEnd ==
  /\ pc = "loop" /\ next_page_url = NoUrl
  /\ pc' = "save"
  /\ soup' = NoSoup /\ idx' = 1 /\ book_soup' = NoDoc
  /\ UNCHANGED <<site, next_page_url, books, listingLog, anyFetchFailed,
                 file, exitCode, table>>

\* ------------------------------------------------------------ the writer
Columns == IF prog = "scraper" THEN Fieldnames(books) ELSE DataFrameColumns(books)

\* scraper.py 130: open('books.csv', 'w') creates or truncates the file
ScraperOpen ==
  /\ prog = "scraper" /\ pc = "save"
  /\ file' = FileOf(<<>>)
  /\ pc' = "opened"
  /\ UNCHANGED <<site, next_page_url, soup, idx, book_soup, books,
                 listingLog, anyFetchFailed, exitCode, table>>

\* scrape_books.py 110-111, 94-103: nothing is saved for an empty list
BooksSave ==
  /\ prog = "scrape_books" /\ pc = "save"
  /\ IF books = <<>>
     THEN /\ pc' = "done" /\ exitCode' = 0 /\ UNCHANGED file
     ELSE /\ pc' = "opened" /\ file' = FileOf(<<>>) /\ UNCHANGED exitCode
  /\ UNCHANGED <<site, next_page_url, soup, idx, book_soup, books,
                 listingLog, anyFetchFailed, table>>

\* scraper.py 132-133, DataFrame.to_csv: the header line
WriteHeader ==
  /\ pc = "opened" /\ books # <<>>
  /\ file' = FileOf(<<Columns>>)
  /\ pc' = "header"
  /\ UNCHANGED <<site, next_page_url, soup, idx, book_soup, books,
                 listingLog, anyFetchFailed, exitCode, table>>

\* variant: an empty line instead of the placeholder text
WritePlaceholderEmptyLine ==
  /\ prog = "scraper" /\ pc = "opened" /\ books = <<>>
  /\ file' = FileOf(<< <<>> >>)
  /\ pc' = "rows"
  /\ UNCHANGED <<site, next_page_url, soup, idx, book_soup, books,
                 listingLog, anyFetchFailed, exitCode, table>>

\* scraper.py 135-136
WritePlaceholder ==
  /\ prog = "scraper" /\ pc = "opened" /\ books = <<>>
  /\ file' = FileOf(<<PlaceholderLine>>)
  /\ pc' = "rows"
  /\ UNCHANGED <<site, next_page_url, soup, idx, book_soup, books,
                 listingLog, anyFetchFailed, exitCode, table>>

\* the data rows of the records, in order, for the columns cols
RECURSIVE Lines(_, _)
Lines(recs, cols) ==
  IF recs = <<>> THEN <<>>
  ELSE Append(Lines(SubSeq(recs, 1, Len(recs) - 1), cols),
              Row(recs[Len(recs)], cols))

\* scraper.py 134: writer.writerows(results); DataFrame.to_csv: the rows
WriteRows ==
  /\ pc = "header"
  /\ file' = FileOf(file.lines \o Lines(books, file.lines[1]))
  /\ pc' = "rows"
  /\ UNCHANGED <<site, next_page_url, soup, idx, book_soup, books,
                 listingLog, anyFetchFailed, exitCode, table>>

\* the process is killed between two steps of the write
Kill ==
  /\ pc \in {"opened", "header", "rows"}
  /\ pc' = "killed" /\ exitCode' = 1
  /\ UNCHANGED <<site, next_page_url, soup, idx, book_soup, books,
                 listingLog, anyFetchFailed, file, table>>

\* the file is closed and the process exits
CloseFile ==
  /\ pc = "rows"
  /\ pc' = "done" /\ exitCode' = 0
  /\ UNCHANGED <<site, next_page_url, soup, idx, book_soup, books,
                 listingLog, anyFetchFailed, file, table>>

\* api/app.py 19-56: the API reads the file scrape_books.py wrote
Load ==
  /\ prog = "scrape_books" /\ pc = "done"
  /\ table' = load_books_data(file)
  /\ pc' = "loaded"
  /\ UNCHANGED <<site, next_page_url, soup, idx, book_soup, books,
                 listingLog, anyFetchFailed, file, exitCode>>

Next ==
  \/ ScraperFetchListing
  \/ BooksFetchListing
  \/ ScraperItem
  \/ BooksItem
  \/ NextPage
  \/ WalkEnd
  \/ ScraperOpen
  \/ BooksSave
  \/ WriteHeader
  \/ WritePlaceholder
  \/ WriteRows
  \/ CloseFile
  \/ Kill
  \/ Load

Spec == Init /\ [][Next]_vars

TypeOK ==
  /\ pc \in {"loop", "items", "save", "opened", "header", "rows", "done",
             "crashed", "killed", "loaded"}
  /\ next_page_url \in {NoUrl} \cup Pages
  /\ idx \in 1..(MaxItems + 1)
  /\ Len(listingLog) <= MaxListingFetches
  /\ exitCode \in {Running, 0, 1}
\* ============================================================== claims
Last(seq) == seq[Len(seq)]
LogUrls == [k \in 1..Len(listingLog) |-> listingLog[k].url]
WalkOver == pc \in {"save", "opened", "header", "rows", "done", "loaded", "crashed",
                    "killed"}
RunOver == pc \in {"done", "loaded", "crashed"}

\* the pages reached from page p by the next links, in order; <<>> when
\* the links lead back to a page already on the way
RECURSIVE ChainFrom(_, _)
ChainFrom(p, acc) ==
  IF p = NoUrl THEN acc
  ELSE IF \E k \in 1..Len(acc) : acc[k] = p THEN <<>>
  ELSE ChainFrom(nextLink[p], Append(acc, p))

Chain == ChainFrom(1, <<>>)

SpecHeader ==
  <<"title", "price", "rating", "availability", "category", "image_url",
    "source_url">>
ScraperHeader ==
  <<"title", "price", "stock", "description", "stars", "img_url", "category">>
BooksHeader ==
  <<"title", "price", "rating", "availability", "category", "image_url",
    "book_url">>

\* the detail page lacks nothing but, possibly, what the claim is about
CompleteButRating(doc) ==
  /\ doc # NoDoc /\ doc.fetch = "ok" /\ doc.title /\ doc.price /\ doc.stock
  /\ doc.desc /\ doc.img /\ doc.crumbs = 3
CompleteButCrumbs(doc) ==
  /\ doc # NoDoc /\ doc.fetch = "ok" /\ doc.title /\ doc.price /\ doc.stock
  /\ doc.desc /\ doc.img /\ doc.rating = <<"star-rating", "Three">>
  /\ doc.crumbs >= 0

\* the item whose detail page is book_soup, while the page is processed
ItemJustDone ==
  IF pc = "crashed" THEN <<Last(listingLog).url, idx>>
  ELSE <<Last(listingLog).url, idx - 1>>
AfterItem == pc \in {"items", "crashed"} /\ book_soup # NoDoc /\ listingLog # <<>>
          /\ Last(listingLog).outcome = "ok"
          /\ (pc = "items" => idx > 1)

\* C1: on a site whose listing pages form an acyclic chain of N pages and
\* whose fetches all succeed, the walk ends normally having fetched exactly
\* the N pages of the chain, once each, in chain order.
C1_ChainWalkedInOrder ==
  (WalkOver /\ listingLog # <<>> /\ Chain # <<>> /\ ~anyFetchFailed)
    => (pc # "crashed" /\ LogUrls = Chain)

\* C2: no listing URL is fetched more than once in a run, whatever the
\* next links of the site (cycle guard).
C2_NoListingFetchedTwice ==
  \A j, k \in 1..Len(listingLog) :
     j # k => listingLog[j].url # listingLog[k].url

\* C3: an item whose detail fetch fails never aborts the run and leaves no
\* record; the crawl goes on with the following items.
C3_FailedItemSkipped ==
  (AfterItem /\ book_soup.fetch # "ok")
    => /\ pc = "items"
       /\ (C2_NoListingFetchedTwice =>
             \A k \in 1..Len(books) :
                Cell(books[k], "title")
                  # TitleText(ItemJustDone[1], ItemJustDone[2]))

\* C4: a failed fetch of a listing page other than the first never aborts
\* the run, and a finished run has written every collected record.
C4_LaterListingFailureNotFatal ==
  /\ (Len(listingLog) >= 2 /\ Last(listingLog).url # listingLog[1].url
      /\ Last(listingLog).outcome # "ok")
        => pc # "crashed"
  /\ (pc \in {"done", "loaded"} /\ books # <<>>)
        => file = FileOf(<<Columns>> \o Lines(books, Columns))

\* C5: a run ends with a failure exit exactly when the fetch of the first
\* listing page failed, and then it has collected no record.
C5_FatalIffFirstListingFails ==
  (RunOver /\ listingLog # <<>>)
    => /\ (exitCode # 0) <=> (listingLog[1].outcome # "ok")
       /\ (exitCode # 0) => books = <<>>

\* C6 (as stated): a crawl that ends with no record leaves a file holding
\* exactly the header line.
C6_EmptyGivesHeaderOnly ==
  (pc \in {"done", "loaded"} /\ books = <<>>) => file = FileOf(<<SpecHeader>>)

\* C6 (amended): a crawl that ends with no record leaves, with scraper.py,
\* a file holding exactly the line "No data found", and with
\* scrape_books.py the destination as it was before the run.
C6_EmptyGivesPlaceholderOrNothing ==
  (pc \in {"done", "loaded"} /\ books = <<>>)
    => file = (IF prog = "scraper" THEN FileOf(<< <<"No data found">> >>)
               ELSE prevFile)

C6_Witness ==
  /\ pc = "done" /\ books = <<>> /\ prog = "scraper"
  /\ listingLog # <<>> /\ prevFile = OldFile

\* C7: at every point of a run the destination file is the complete
\* previous dataset (or absent) or the complete new dataset.
CompleteFile ==
  IF books # <<>> THEN FileOf(<<Columns>> \o Lines(books, Columns))
  ELSE IF prog = "scraper" THEN FileOf(<<PlaceholderLine>>)
  ELSE prevFile

C7_FileOldOrNew ==
  \/ file = prevFile
  \/ WalkOver /\ file = CompleteFile

\* C8: for an item whose rating element carries the token One..Five the
\* row of the item gets the rating 1..5; with any other token, or none,
\* the row of the item gets a null rating.
Ordinal(token) ==
  CASE token = "One" -> 1 [] token = "Two" -> 2 [] token = "Three" -> 3
    [] token = "Four" -> 4 [] token = "Five" -> 5 [] OTHER -> NaN
ExpectedRating(classes) ==
  IF classes # NoElem /\ Len(classes) >= 2 THEN Ordinal(classes[2]) ELSE NaN

C8_RatingMapped ==
  (prog = "scrape_books" /\ AfterItem /\ CompleteButRating(book_soup))
    => /\ books # <<>>
       /\ Cell(Last(books), "title") = TitleText(ItemJustDone[1], ItemJustDone[2])
       /\ RatingNumeric(Cell(Last(books), "rating"))
            = ExpectedRating(book_soup.rating)

\* C9: for a breadcrumb of n anchors the record of the item has the empty
\* category when n < 3 and the text of the n-th anchor when n >= 3.
ExpectedCategory(n) == IF n < 3 THEN EmptyStr ELSE <<"crumb", n>>

C9_CategoryIsLastCrumb ==
  (AfterItem /\ CompleteButCrumbs(book_soup))
    => /\ pc = "items"
       /\ books # <<>>
       /\ Cell(Last(books), "title") = TitleText(ItemJustDone[1], ItemJustDone[2])
       /\ Cell(Last(books), "category")
            = ExpectedCategory(Len(Breadcrumb(book_soup)))

\* C10 (as stated): the header of the written file is always title, price,
\* rating, availability, category, image_url, source_url (here: whenever
\* there are records to write).
HeaderWritten == pc \in {"header", "rows", "done", "loaded", "killed"} /\ file.exists
                 /\ file # prevFile /\ Len(file.lines) >= 1
C10_HeaderIsSpecHeader ==
  (HeaderWritten /\ books # <<>>) => file.lines[1] = SpecHeader

\* C10 (amended): when there are records, the header of the written file
\* is always title, price, stock, description, stars, img_url, category
\* with scraper.py and title, price, rating, availability, category,
\* image_url, book_url with scrape_books.py, whichever fields are populated;
\* without records no header is written.
C10_HeaderIsRecordKeys ==
  HeaderWritten
    => file.lines[1] = (IF books = <<>> THEN <<"No data found">>
                        ELSE IF prog = "scraper" THEN ScraperHeader
                        ELSE BooksHeader)

C10_Witness ==
  /\ pc = "done" /\ prog = "scraper" /\ Len(books) >= 2
  /\ Cell(books[1], "img_url") = EmptyStr
  /\ Cell(books[2], "img_url") # EmptyStr

\* C11: every record collected has a title and a price, and a detail page
\* that was fetched but lacks the title or the price element leaves no
\* record and does not abort the run: the crawl goes on with the next item.
HasField(rec, col) ==
  /\ \E k \in 1..Len(rec) : rec[k][1] = col
  /\ Cell(rec, col) # EmptyStr

C11_NoPartialRecordNoAbort ==
  /\ \A k \in 1..Len(books) :
        HasField(books[k], "title") /\ HasField(books[k], "price")
  /\ (AfterItem /\ book_soup.fetch = "ok"
      /\ (~book_soup.title \/ ~book_soup.price))
       => /\ pc = "items"
          /\ (C2_NoListingFetchedTwice =>
                \A k \in 1..Len(books) :
                   Cell(books[k], "title")
                     # TitleText(ItemJustDone[1], ItemJustDone[2]))

\* C12: a detail page that was fetched and has its title and its price
\* yields a record whatever else it lacks, with a null rating when the
\* rating element or its token is missing and an empty availability,
\* category or image URL when the element is missing.
RatingField == IF prog = "scraper" THEN "stars" ELSE "rating"
StockField == IF prog = "scraper" THEN "stock" ELSE "availability"
ImageField == IF prog = "scraper" THEN "img_url" ELSE "image_url"
RatingMissing(doc) == doc.rating = NoElem \/ Len(doc.rating) < 2

C12_OptionalFieldsDegrade ==
  (AfterItem /\ book_soup.fetch = "ok" /\ book_soup.title /\ book_soup.price)
    => /\ pc = "items"
       /\ books # <<>>
       /\ Cell(Last(books), "title") = TitleText(ItemJustDone[1], ItemJustDone[2])
       /\ ~book_soup.stock => Cell(Last(books), StockField) = EmptyStr
       /\ ~book_soup.img => Cell(Last(books), ImageField) = EmptyStr
       /\ Len(Breadcrumb(book_soup)) < 3
            => Cell(Last(books), "category") = EmptyStr
       /\ RatingMissing(book_soup)
            => RatingNumeric(Cell(Last(books), RatingField)) = NaN

\* C13: the records are accumulated in crawl order.  Every step that
\* changes the list appends one record, the record of the item the loop
\* is at; an item whose detail page is complete is always recorded; a
\* listing page is fetched only when every item of the page before it has
\* been processed; so the list is, in order, a selection of the items of
\* the pages visited, page after page and item after item.
Titles(recs) == [k \in 1..Len(recs) |-> Cell(recs[k], "title")]

\* the item slots of the listing pages fetched, in visit and page order
RECURSIVE Slots(_)
Slots(log) ==
  IF log = <<>> THEN <<>>
  ELSE Slots(SubSeq(log, 1, Len(log) - 1))
       \o [i \in 1..MaxItems |-> TitleText(log[Len(log)].url, i)]

\* a is b with some elements left out
RECURSIVE IsSubseq(_, _)
IsSubseq(a, b) ==
  IF a = <<>> THEN TRUE
  ELSE IF b = <<>> THEN FALSE
  ELSE IF Head(a) = Head(b) THEN IsSubseq(Tail(a), Tail(b))
  ELSE IsSubseq(a, Tail(b))

Healthy(doc) ==
  /\ doc.fetch = "ok" /\ doc.title /\ doc.price /\ doc.stock /\ doc.img
  /\ ~RatingMissing(doc) /\ doc.crumbs >= 3

C13_Step ==
  /\ books' # books
       => /\ pc = "items"
          /\ Len(books') = Len(books) + 1
          /\ SubSeq(books', 1, Len(books)) = books
          /\ Cell(books'[Len(books')], "title")
               = TitleText(Last(listingLog).url, idx)
          /\ idx' = idx + 1
  /\ (pc = "items" /\ pc' = "items" /\ idx' = idx + 1 /\ Healthy(book_soup'))
       => books' # books
  /\ listingLog' # listingLog => idx > soup.items
  /\ IsSubseq(Titles(books'), Slots(listingLog'))

C13_SequentialInOrder == [][C13_Step]_vars

C13_Witness ==
  /\ prog = "scrape_books" /\ pc = "done"
  /\ LogUrls = <<1, 2>>
  /\ Titles(books) = <<TitleText(1, 2), TitleText(2, 1), TitleText(2, 2)>>
====
